---- MODULE Spec2Model ----
(***************************************************************************)
(* The adaptive bitrate engine of web-tv-player                            *)
(* (utils/adaptiveStreaming.ts, class AdaptiveStreamingEngine) and the     *)
(* useAdaptiveStreaming hook that constructs and drives it.                *)
(*                                                                         *)
(* Bitrates, bandwidth and throughput are counted in units of 100 kbit/s  *)
(* (400 kbit/s is 4), times of the timers in milliseconds, positions of    *)
(* the playback sink in seconds.  A quality level is named by its index in *)
(* config.qualities (1..Len), 0 standing for null / the empty id.          *)
(*                                                                         *)
(* The JavaScript event loop is modelled as it schedules this code: a      *)
(* timer callback, a DOM event or a resolved fetch is a task, and the      *)
(* continuation of an await on an already settled promise is a microtask, *)
(* which runs before the next task.  Calls of the public methods may come  *)
(* from any task or microtask of the caller.                               *)
(***************************************************************************)
EXTENDS Integers, Sequences, FiniteSets, Bags, TLC

\* ------------------------------------------------------------------ bounds

\* completed quality switches explored
MaxSwitches == 2
\* ... and in the runs of the rebuffering guard alone
MaxGuardSwitches == 3
\* rebuffering events explored
MaxRebuffers == 1
\* ... and in the runs that follow one rebuffering episode
MaxEpisodeEvents == 2
\* throughput probes in flight at once
MaxProbes == 1
\* loadSegment calls in flight at once
MaxLoads == 2
\* rebuffering-guard preloads in flight at once
MaxPreloads == 1
\* calls of destroy() explored
MaxDestroys == 2
\* updateend events queued for the engine's listener and not yet delivered
MaxUpdateEnds == 1
\* buffer checks counted inside one low-buffer period
MaxPeriodTicks == 1
\* segments loadSegment may leave in the segment queue
MaxQueue == 1
MaxElapses == 6               \* steps of the page's clock
MaxEngines == 2               \* engines one hook constructs

\* ------------------------------------------------------- program constants

\* switchQuality: this.qualitySwitchCooldown = 2000
CooldownMs == 2000
\* updateCooldown: this.qualitySwitchCooldown -= 1000
CooldownStepMs == 1000
\* the hook's handleWaiting: least gap between two onRebuffering calls
RebufferingGapMs == 5000
\* the step of the page's clock
ElapseMs == RebufferingGapMs \div 2
\* startMonitoring: the buffer check runs every 1000 ms
BufferCheckMs == 1000
\* the hook's startMonitoring: updateCooldown() is called every 1000 ms
HookTickMs == 1000
\* measureThroughput: the fallback throughput of a failed probe, 1 Mbit/s
FallbackThroughput == 10
\* selectInitialQuality: 500 kbit/s, 2 Mbit/s, 5 Mbit/s
ConservativeBitrate == 5
GoodBandwidth == 20
ExcellentBandwidth == 50
\* preloadContent: fetchNextSegments(3)
PreloadCount == 3
\* the configuration the repository uses (AdaptiveStreamingDashboard)
RebufferThreshold == 2
TargetBufferLength == 10
DefaultCheckInterval == 2000
\* bits per second in one unit of bitrate
Unit == 100 * 1000
\* calculateNetworkStability: this.qualityHistory.slice(-10)
HistoryWindow == 10
\* switches explored in the runs that fill the history
MaxHistorySwitches == HistoryWindow + 1

\* ------------------------------------------------------------ input sets

Level(b, h) == [bitrate |-> b, height |-> h]

\* config.qualities: the ladder of spec scenario A, and ladders the
\* constructor accepts as well (it neither sorts nor validates its config)
ScenarioLadder == << Level(4, 240), Level(25, 720), Level(50, 1080) >>
Ladders ==
    { ScenarioLadder,
      << Level(4, 240), Level(50, 1080), Level(25, 720) >>,
      << Level(50, 1080), Level(4, 240) >>,
      << >> }

\* ... and ladders in which two entries have the same bitrate
TiedLadders ==
    { << Level(4, 240), Level(25, 720), Level(25, 1080) >>,
      << Level(4, 240), Level(25, 1080), Level(25, 720) >>,
      << Level(4, 240), Level(25, 720), Level(25, 720) >> }

\* config.networkCheckInterval
CheckIntervals == {500, 1000, 2000}
\* ... and the ones a caller may hand to the constructor, which takes any
\* number
ConfiguredIntervals == {-1000, 0, DefaultCheckInterval}

\* navigator.connection.downlink * 1e6, and the throughput a probe measures
Bandwidths == {100}
Throughputs == {100}
\* ... and the samples of the runs that only evaluate the bandwidth
SampleRates == {10, 40, 100}
\* ... and of the runs that switch again and again
HistoryRates == {10, 100}

\* the sink: videoElement.currentTime and sourceBuffer.buffered
Range(s, e) == [start |-> s, end |-> e]
Positions == {0, 4, 6}
\* ... and positions around the threshold: 5, 2 and 1 seconds ahead
EpisodePositions == {0, 3, 4}
BufferedRanges == { << >>, << Range(0, 5) >> }

\* locators handed to loadSegment
Segments == {1}

Max(a, b) == IF a >= b THEN a ELSE b
Min(a, b) == IF a <= b THEN a ELSE b


\* ------------------------------------------------------------------ state

VARIABLES
    \* the configuration (this.config)
    qualities, networkCheckInterval,
    \* AdaptiveStreamingEngine's fields
    mediaSource,              \* "null", or mediaSource.readyState
    sourceBuffer,             \* 0 (null) or the level the buffer was added for
    currentQuality,           \* 0 (null) or a ladder index
    networkMetrics, adaptiveMetrics, qualityHistory,
    isBuffering, segmentQueue, qualitySwitchCooldown,
    networkMonitorInterval,   \* "null", "active" or "cleared"
    bufferMonitorInterval,
    \* the playback sink
    updating,                 \* this.sourceBuffer.updating
    buffered,                 \* this.sourceBuffer.buffered
    currentTime,              \* videoElement.currentTime
    \* the event loop
    initState,                \* of the promise initialize() returned
    microtasks,               \* switchQuality continuations ready to resume
    probes,                   \* throughput probes in flight
    loads,                    \* loadSegment fetches in flight
    preloads,                 \* fetchNextSegments loops in flight
    errorEvent, updateEnds,   \* source buffer events queued for the listeners
    \* what the callers and the sink have seen
    destroyCalls,             \* completed calls of destroy()
    destroyRaised,            \* an exception left the last call of destroy()
    reentrantAppend,          \* the last step called appendBuffer on an
                              \* updating buffer
    forcedFrom,               \* level before the buffer check that just found
                              \* the buffer low
    periodTicks, periodEvents,\* the running low-buffer period
    forcedCooldown,           \* the last switch was a forced downgrade
    episode,                  \* the running rebuffering episode
    \* the timers' clocks (milliseconds until due) and the cooldown's history
    netDue, bufDue, hookDue, sinceEvalSwitch, evalGap,
    \* the useAdaptiveStreaming hook that holds the engine: its state and
    \* refs, and performance.now()
    hook, now,
    observed,                 \* what the hook's last handler met and called
    emittedAt,                \* performance.now() at the last onRebuffering
                              \* call, -1 with none made
    unmounted,                \* the component using the hook has unmounted
    engines                   \* the engines the hook has constructed whose
                              \* initialize() has not been rejected

engineVars ==
    << mediaSource, sourceBuffer, currentQuality, networkMetrics,
       adaptiveMetrics, qualityHistory, isBuffering, segmentQueue,
       qualitySwitchCooldown, networkMonitorInterval, bufferMonitorInterval,
       updating, buffered, microtasks, preloads, errorEvent, updateEnds,
       destroyRaised, reentrantAppend >>

configVars == << qualities, networkCheckInterval >>
clockVars == << netDue, bufDue, hookDue, sinceEvalSwitch, evalGap >>
periodVars ==
    << forcedFrom, periodTicks, periodEvents, forcedCooldown, episode >>
engineState ==
    << configVars, engineVars, currentTime, initState, probes, loads,
       destroyCalls, periodVars, clockVars >>
hostVars == << hook, now, observed, emittedAt, unmounted, engines >>

vars ==
    << configVars, engineVars, currentTime, initState, probes, loads,
       destroyCalls, periodVars, clockVars, hostVars >>

\* The engine object with its sink and its queued continuations, as one value
\* the handlers below transform; no appendBuffer call has been seen yet in
\* the step that starts.
This ==
    [ mediaSource |-> mediaSource, sourceBuffer |-> sourceBuffer,
      currentQuality |-> currentQuality, networkMetrics |-> networkMetrics,
      adaptiveMetrics |-> adaptiveMetrics, qualityHistory |-> qualityHistory,
      isBuffering |-> isBuffering, segmentQueue |-> segmentQueue,
      qualitySwitchCooldown |-> qualitySwitchCooldown,
      networkMonitorInterval |-> networkMonitorInterval,
      bufferMonitorInterval |-> bufferMonitorInterval,
      updating |-> updating, buffered |-> buffered,
      microtasks |-> microtasks, preloads |-> preloads,
      errorEvent |-> errorEvent, updateEnds |-> updateEnds,
      destroyRaised |-> destroyRaised, reentrantAppend |-> FALSE ]

\* The engine after a handler returned t.
Becomes(t) ==
    /\ mediaSource' = t.mediaSource
    /\ sourceBuffer' = t.sourceBuffer
    /\ currentQuality' = t.currentQuality
    /\ networkMetrics' = t.networkMetrics
    /\ adaptiveMetrics' = t.adaptiveMetrics
    /\ qualityHistory' = t.qualityHistory
    /\ isBuffering' = t.isBuffering
    /\ segmentQueue' = t.segmentQueue
    /\ qualitySwitchCooldown' = t.qualitySwitchCooldown
    /\ networkMonitorInterval' = t.networkMonitorInterval
    /\ bufferMonitorInterval' = t.bufferMonitorInterval
    /\ updating' = t.updating
    /\ buffered' = t.buffered
    /\ microtasks' = t.microtasks
    /\ preloads' = t.preloads
    /\ errorEvent' = t.errorEvent
    /\ updateEnds' = t.updateEnds
    /\ destroyRaised' = t.destroyRaised
    /\ reentrantAppend' = t.reentrantAppend

\* initializeNetworkMetrics, initializeAdaptiveMetrics
InitialNetworkMetrics == [bandwidth |-> 0, throughput |-> 0]
InitialAdaptiveMetrics ==
    [ currentQuality |-> 0, qualitySwitches |-> 0, rebufferingEvents |-> 0,
      bufferHealth |-> 100, networkStability |-> 100,
      userExperience |-> "good" ]

\* ------------------------------------------------------- quality selection

\* Array.prototype.find on the ladder: the first index whose bitrate passes,
\* 0 for undefined.
FindBitrateAtMost(limit) ==
    LET hits == {i \in 1..Len(qualities) : qualities[i].bitrate <= limit}
    IN  IF hits = {} THEN 0 ELSE CHOOSE i \in hits : \A j \in hits : i <= j

FindBitrateBelow(limit) ==
    LET hits == {i \in 1..Len(qualities) : qualities[i].bitrate < limit}
    IN  IF hits = {} THEN 0 ELSE CHOOSE i \in hits : \A j \in hits : i <= j

\* A selectInitialQuality that always names a first level
selectInitialQualityFirst(bandwidth) ==
    LET conservative == FindBitrateAtMost(ConservativeBitrate)
    IN  IF conservative # 0 THEN conservative ELSE 1

\* A selectInitialQuality that takes the last level on a good network already
selectInitialQualityEager(bandwidth) ==
    LET conservative == FindBitrateAtMost(ConservativeBitrate)
        selected == IF bandwidth > GoodBandwidth
                    THEN Len(qualities) ELSE conservative
    IN  IF selected # 0 THEN selected
        ELSE IF Len(qualities) > 0 THEN 1 ELSE 0

\* selectInitialQuality: 0 when the ladder is empty
selectInitialQuality(bandwidth) ==
    LET conservative == FindBitrateAtMost(ConservativeBitrate)
        good == IF bandwidth > GoodBandwidth
                THEN FindBitrateAtMost(GoodBandwidth) ELSE conservative
        selected == IF bandwidth > ExcellentBandwidth
                    THEN Len(qualities) ELSE good
    IN  IF selected # 0 THEN selected
        ELSE IF Len(qualities) > 0 THEN 1 ELSE 0

\* The loop of selectQualityForBitrate from index i on, with `selected` the
\* choice so far; target10 is ten times the target bitrate.
RECURSIVE SelectLoop(_, _, _)
SelectLoop(i, selected, target10) ==
    IF i > Len(qualities) THEN selected
    ELSE IF qualities[i].bitrate * 10 <= target10
         THEN SelectLoop(i + 1, i, target10)
         ELSE selected

\* selectQualityForBitrate
selectQualityForBitrate(target10) ==
    IF Len(qualities) = 0 THEN 0 ELSE SelectLoop(1, 1, target10)

\* adaptQuality's target: min(bandwidth, throughput) * 0.8, times ten
TargetBitrate10(nm) == Min(nm.bandwidth, nm.throughput) * 8

\* -------------------------------------------------------------- switching

\* A switchQuality that counts the switch and leaves the history as it is
SwitchCommitUnrecorded(s, q) ==
    [ s EXCEPT
        !.updateEnds = IF s.updating THEN Min(@ + 1, MaxUpdateEnds) ELSE @,
        !.sourceBuffer = q,
        !.updating = FALSE,
        !.buffered = << >>,
        !.currentQuality = q,
        !.adaptiveMetrics.currentQuality = q,
        !.adaptiveMetrics.qualitySwitches = @ + 1,
        !.qualitySwitchCooldown = CooldownMs ]

\* The part of switchQuality after its await: the old buffer is removed (an
\* append it was running is aborted and its updateend queued), the new one
\* takes its place and the metrics are updated.
SwitchCommit(s, q) ==
    [ s EXCEPT
        !.updateEnds = IF s.updating THEN Min(@ + 1, MaxUpdateEnds) ELSE @,
        !.sourceBuffer = q,
        !.updating = FALSE,
        !.buffered = << >>,
        !.currentQuality = q,
        !.adaptiveMetrics.currentQuality = q,
        !.adaptiveMetrics.qualitySwitches = @ + 1,
        !.qualityHistory = Append(@, q),
        !.qualitySwitchCooldown = CooldownMs ]

\* switchQuality awaits extractBufferSegment when the position lies in the
\* first buffered range of the buffer being replaced.
SwitchAwaits(s, time) ==
    /\ Len(s.buffered) > 0
    /\ time >= s.buffered[1].start
    /\ time <= s.buffered[1].end

\* A switchQuality that names the new level current before it suspends
switchQualityEarly(s, q, cause, time, addOk) ==
    IF s.mediaSource = "null" \/ s.sourceBuffer = 0 THEN s
    ELSE IF ~(addOk /\ s.mediaSource = "open") THEN s
    ELSE IF SwitchAwaits(s, time)
         THEN [s EXCEPT !.currentQuality = q,
                        !.microtasks = Append(@, [q |-> q, cause |-> cause])]
         ELSE SwitchCommit(s, q)

\* A switchQuality that starts the cooldown before it tries the new buffer
switchQualityCooling(s, q, cause, time, addOk) ==
    IF s.mediaSource = "null" \/ s.sourceBuffer = 0 THEN s
    ELSE IF ~(addOk /\ s.mediaSource = "open")
         THEN [s EXCEPT !.qualitySwitchCooldown = CooldownMs]
    ELSE IF SwitchAwaits(s, time)
         THEN [s EXCEPT !.microtasks = Append(@, [q |-> q, cause |-> cause])]
         ELSE SwitchCommit(s, q)

\* switchQuality(newQuality) up to its first await, or to its end when it
\* does not await.  addOk: mediaSource.addSourceBuffer does not throw for a
\* reason of its own; it throws anyway unless the media source is open.
switchQuality(s, q, cause, time, addOk) ==
    IF s.mediaSource = "null" \/ s.sourceBuffer = 0 THEN s
    ELSE IF ~(addOk /\ s.mediaSource = "open") THEN s
    ELSE IF SwitchAwaits(s, time)
         THEN [s EXCEPT !.microtasks = Append(@, [q |-> q, cause |-> cause])]
         ELSE SwitchCommit(s, q)

\* An adaptQuality that evaluates during the cooldown too
adaptQualityAnyTime(s, time, addOk) ==
    IF s.currentQuality = 0 THEN s
    ELSE LET newQuality ==
                 selectQualityForBitrate(TargetBitrate10(s.networkMetrics))
         IN  IF newQuality # 0 /\ newQuality # s.currentQuality
             THEN switchQuality(s, newQuality, "eval", time, addOk)
             ELSE s

\* adaptQuality
adaptQuality(s, time, addOk) ==
    IF s.currentQuality = 0 \/ s.qualitySwitchCooldown > 0 THEN s
    ELSE LET newQuality ==
                 selectQualityForBitrate(TargetBitrate10(s.networkMetrics))
         IN  IF newQuality # 0 /\ newQuality # s.currentQuality
             THEN switchQuality(s, newQuality, "eval", time, addOk)
             ELSE s

\* An updateCooldown that leaves the cooldown as it is
updateCooldownKept(s) == s

\* An updateCooldown that decrements whatever the cooldown is
updateCooldownAlways(s) ==
    [s EXCEPT !.qualitySwitchCooldown = @ - CooldownStepMs]

\* updateCooldown
updateCooldown(s) ==
    IF s.qualitySwitchCooldown > 0
    THEN [s EXCEPT !.qualitySwitchCooldown = @ - CooldownStepMs]
    ELSE s

\* ------------------------------------------------------ buffer monitoring

\* preloadContent: fetchNextSegments(3) issues its first fetch at once, for
\* the url of the quality that is current at that moment.
preloadContent(s) ==
    IF s.currentQuality = 0 THEN s
    ELSE [s EXCEPT !.preloads = Append(@, << s.currentQuality >>)]

\* handleRebufferingRisk
handleRebufferingRisk(s, time, addOk) ==
    IF s.isBuffering THEN s
    ELSE LET currentIndex == s.currentQuality
             lowered == IF currentIndex > 1
                        THEN switchQuality(s, currentIndex - 1, "forced",
                                           time, addOk)
                        ELSE s
         IN  preloadContent(lowered)

\* bufferEnd - currentTime, of a non-empty buffered list
BufferAhead(ranges, time) == ranges[Len(ranges)].end - time

\* Math.min(100, (bufferAhead / targetBufferLength) * 100): the sink's times
\* are whole seconds here and the product is exact
BufferHealth(ahead) == Min(100, (ahead * 100) \div TargetBufferLength)

\* monitorBufferHealth
monitorBufferHealth(s, time, addOk) ==
    IF s.sourceBuffer = 0 THEN s
    ELSE IF Len(s.buffered) = 0
         THEN [s EXCEPT !.adaptiveMetrics.bufferHealth = 0]
    ELSE LET bufferAhead == BufferAhead(s.buffered, time)
             e == [s EXCEPT !.adaptiveMetrics.bufferHealth =
                                BufferHealth(bufferAhead)]
         IN  IF bufferAhead < RebufferThreshold
             THEN handleRebufferingRisk(e, time, addOk)
             ELSE e

\* handleBufferUpdate
handleBufferUpdate(s) ==
    IF s.isBuffering
    THEN [s EXCEPT !.isBuffering = FALSE,
                   !.adaptiveMetrics.rebufferingEvents = @ + 1]
    ELSE s

\* handleBufferError
handleBufferError(s, time, addOk) ==
    LET e == [s EXCEPT !.isBuffering = TRUE]
        stableQuality ==
            IF s.currentQuality = 0 THEN 0
            ELSE FindBitrateBelow(qualities[s.currentQuality].bitrate)
    IN  IF stableQuality # 0
        THEN switchQuality(e, stableQuality, "error", time, addOk)
        ELSE e

\* ------------------------------------------------------ network monitoring

RECURSIVE SumBitrates(_)
SumBitrates(ids) ==
    IF ids = << >> THEN 0
    ELSE qualities[Head(ids)].bitrate + SumBitrates(Tail(ids))

RECURSIVE SumSquares(_)
SumSquares(ids) ==
    IF ids = << >> THEN 0
    ELSE qualities[Head(ids)].bitrate * qualities[Head(ids)].bitrate
           + SumSquares(Tail(ids))

LastN(seq, n) ==
    IF Len(seq) <= n THEN seq ELSE SubSeq(seq, Len(seq) - n + 1, Len(seq))

\* calculateNetworkStability.  With n ids of bitrate sum S and square sum Q
\* (in units), variance / average is Unit * (n*Q - S*S) / (n*S) in bit/s;
\* the stability is max(0, 100 - that * 100), rounded down here, and NaN
\* when every recent bitrate is 0.
calculateNetworkStability(s) ==
    LET recent == LastN(s.qualityHistory, HistoryWindow)
        n == Len(recent)
        S == SumBitrates(recent)
        d == n * SumSquares(recent) - S * S
        stability ==
            IF n < 2 THEN 100
            ELSE IF S = 0 THEN "NaN"
            ELSE IF d = 0 THEN 100
            ELSE IF d > (n * S) \div Unit THEN 0
            ELSE Max(0, 100 - (100 * Unit * d) \div (n * S))
    IN  [s EXCEPT !.adaptiveMetrics.networkStability = stability]

\* updateNetworkMetrics up to the await inside measureThroughput: the
\* bandwidth is taken from navigator.connection (it stays as it is where
\* that API is missing) and the probe's fetch is started.
updateNetworkMetrics(s, bandwidth) ==
    [s EXCEPT !.networkMetrics.bandwidth = bandwidth]

\* measureThroughput and updateNetworkMetrics from the probe's fetch on.
\* outcome: "ok" with the measured value, "notok" (response.ok false or a
\* zero duration), "failed" (fetch rejected).
ProbeSettled(s, outcome, value) ==
    LET measured ==
            IF outcome = "ok" THEN value
            ELSE IF outcome = "failed" THEN FallbackThroughput
            ELSE s.networkMetrics.throughput
    IN  calculateNetworkStability(
            [s EXCEPT !.networkMetrics.throughput = measured])

\* --------------------------------------------------------------- segments

\* loadSegment's test on entry: the branch that queues
LoadQueues(s) == s.sourceBuffer = 0 \/ s.updating

\* loadSegment from its fetch on.  appendOk: appendBuffer does not throw for
\* a reason of its own; it throws anyway while the buffer is updating.  That
\* an append reopens a media source that has ended is left out.
LoadFetched(s, load, fetchOk, appendOk, time, addOk) ==
    IF load.branch = "queue"
    THEN IF fetchOk
         THEN [s EXCEPT !.segmentQueue = Append(@, load.segment)]
         ELSE s
    ELSE IF ~fetchOk THEN handleBufferError(s, time, addOk)
    ELSE IF s.updating
         THEN handleBufferError([s EXCEPT !.reentrantAppend = TRUE],
                                time, addOk)
    ELSE IF ~appendOk THEN handleBufferError(s, time, addOk)
    ELSE [s EXCEPT !.updating = TRUE]

\* fetchNextSegments after one of its fetches settled, and the rest of
\* preloadContent once the loop is over.  p is the preload's index.
PreloadFetched(s, p, fetchOk, appendOk) ==
    LET issued == s.preloads[p]
        others == [i \in 1..(Len(s.preloads) - 1) |->
                      IF i < p THEN s.preloads[i] ELSE s.preloads[i + 1]]
        segments == IF fetchOk THEN Len(issued) ELSE Len(issued) - 1
    IN  IF fetchOk /\ Len(issued) < PreloadCount
        THEN [s EXCEPT !.preloads[p] = Append(@, s.currentQuality)]
        ELSE IF segments > 0 /\ s.sourceBuffer # 0 /\ ~s.updating /\ appendOk
             THEN [s EXCEPT !.preloads = others, !.updating = TRUE]
             ELSE [s EXCEPT !.preloads = others]

\* ---------------------------------------------------------------- destroy

\* clearInterval on a handle: the timer it names, if still active, is gone
ClearInterval(handle) == IF handle = "null" THEN "null" ELSE "cleared"

\* MediaSource.endOfStream: an InvalidStateError unless the source is open
\* and none of its source buffers is updating
EndOfStream(s) ==
    IF s.mediaSource = "open" /\ ~s.updating
    THEN [s EXCEPT !.mediaSource = "ended"]
    ELSE [s EXCEPT !.destroyRaised = TRUE]

\* destroy
destroy(s) ==
    LET cleared ==
            [s EXCEPT
                !.destroyRaised = FALSE,
                !.networkMonitorInterval = ClearInterval(@),
                !.bufferMonitorInterval = ClearInterval(@)]
    IN  IF cleared.mediaSource # "null" /\ cleared.mediaSource = "open"
        THEN EndOfStream(cleared)
        ELSE cleared

\* ------------------------------------------------------------- initialize

\* setupSourceBuffer.  The result's sourceBuffer stays 0 when it threw: on an
\* empty ladder, or when addSourceBuffer was rejected.
setupSourceBuffer(s, addOk) ==
    LET q == selectInitialQuality(s.networkMetrics.bandwidth)
        chosen == [s EXCEPT !.currentQuality = q]
    IN  IF q = 0 \/ ~addOk THEN chosen
        ELSE [chosen EXCEPT !.sourceBuffer = q,
                            !.adaptiveMetrics.currentQuality = q]

\* startMonitoring
startMonitoring(s) ==
    [s EXCEPT !.networkMonitorInterval = "active",
              !.bufferMonitorInterval = "active"]

\* the sourceopen listener of initialize
SourceOpened(s, addOk) ==
    LET set == setupSourceBuffer([s EXCEPT !.mediaSource = "open"], addOk)
    IN  IF set.sourceBuffer = 0 THEN set ELSE startMonitoring(set)

\* ------------------------------------------------------------------- hook

\* A record as getMetrics() or getNetworkMetrics() hands it out: a copy holds
\* the values of the moment it was made, a live handle would be the engine's
\* own record.
Copy(record) == [live |-> FALSE, value |-> record]

\* The hook's useState initial value and its refs
InitialHook ==
    [ isInitialized |-> FALSE, isPlaying |-> FALSE, isBuffering |-> FALSE,
      currentQuality |-> 0,
      metrics |-> Copy(InitialAdaptiveMetrics),
      networkMetrics |-> Copy(InitialNetworkMetrics),
      error |-> "null",
      engineRef |-> "null", updateIntervalRef |-> "null",
      lastRebufferingTime |-> 0 ]

\* Nothing met, no callback called
Unobserved ==
    [loadFailed |-> FALSE, called |-> << >>, asked |-> 0, event |-> "none"]

\* getMetrics handing out the engine's own record
getMetricsLive(s) == [live |-> TRUE, value |-> s.adaptiveMetrics]

\* getMetrics, getNetworkMetrics
getMetrics(s) == Copy(s.adaptiveMetrics)

getNetworkMetrics(s) == Copy(s.networkMetrics)

\* What a holder of a handed-out record reads in it, the engine's own record
\* being `own`
Read(record, own) == IF record.live THEN own ELSE record.value

\* The message of the error initialize() was rejected with
InitializeError(s) ==
    IF s.currentQuality = 0 THEN "No suitable quality level found"
    ELSE "addSourceBuffer failed"

\* The hook's initialize up to its await: nothing happens without a video
\* element (the hook has one here) or with an engine already held.
hookInitialize(h) == [h EXCEPT !.error = "null"]

\* The hook's startMonitoring
hookStartMonitoring(h) ==
    IF h.updateIntervalRef # "null" THEN h
    ELSE [h EXCEPT !.updateIntervalRef = "active"]

\* The hook's initialize after its await, engine.initialize() having
\* resolved, or been rejected with this message
hookInitializeResolved(h) ==
    hookStartMonitoring([h EXCEPT !.engineRef = "engine",
                                  !.isInitialized = TRUE])

\* ... keeping the engine whose initialize() was rejected
hookInitializeRejectedHeld(h, message) ==
    [h EXCEPT !.isInitialized = FALSE, !.error = message,
              !.engineRef = "engine"]

hookInitializeRejected(h, message) ==
    [h EXCEPT !.isInitialized = FALSE, !.error = message]

\* The state update of the hook's interval callback on the engine s, and the
\* callbacks it makes
hookMonitor(h, s) ==
    LET newMetrics == getMetrics(s)
        newNetworkMetrics == getNetworkMetrics(s)
    IN  [h EXCEPT !.currentQuality =
                      Read(newMetrics, s.adaptiveMetrics).currentQuality,
                  !.metrics = newMetrics,
                  !.networkMetrics = newNetworkMetrics]

hookMonitorCalls(h, s) ==
    LET newMetrics == Read(getMetrics(s), s.adaptiveMetrics)
        newNetworkMetrics == Read(getNetworkMetrics(s), s.networkMetrics)
    IN  (IF h.currentQuality # newMetrics.currentQuality
         THEN << [callback |-> "onQualityChange",
                  quality |-> newMetrics.currentQuality] >>
         ELSE << >>)
        \o (IF Read(h.networkMetrics, s.networkMetrics) # newNetworkMetrics
            THEN << [callback |-> "onNetworkChange"] >>
            ELSE << >>)

\* loadSegment's promise is rejected: only a failed fetch of the queueing
\* branch leaves the method as an exception
LoadRejects(load, fetchOk) == load.branch = "queue" /\ ~fetchOk

\* The fetch or the append inside loadSegment failed
LoadFailed(s, load, fetchOk, appendOk) ==
    \/ ~fetchOk
    \/ load.branch = "append" /\ (s.updating \/ ~appendOk)

\* The hook's loadSegment after its await
hookLoadSegmentSettled(h, rejected) ==
    IF rejected THEN [h EXCEPT !.error = "Failed to fetch"] ELSE h

\* The hook's switchQuality without its look-up in config.qualities
hookSwitchQualityUnchecked(h, qualityId) ==
    IF h.engineRef = "null" THEN h
    ELSE [h EXCEPT !.currentQuality = qualityId]

\* The hook's switchQuality: the state it sets, and the callbacks it makes
hookSwitchQuality(h, qualityId) ==
    IF h.engineRef = "null" THEN h
    ELSE IF qualityId \notin 1..Len(qualities) THEN h
    ELSE [h EXCEPT !.currentQuality = qualityId]

hookSwitchQualityCalls(h, qualityId) ==
    IF h.engineRef = "null" THEN << >>
    ELSE IF qualityId \notin 1..Len(qualities) THEN << >>
    ELSE << [callback |-> "onQualityChange", quality |-> qualityId] >>

\* The hook's handlers of the video element's events
handlePlay(h) == [h EXCEPT !.isPlaying = TRUE, !.isBuffering = FALSE]

handlePause(h) == [h EXCEPT !.isPlaying = FALSE]

handleCanPlay(h) == [h EXCEPT !.isBuffering = FALSE]

handleError(h) ==
    [h EXCEPT !.error = "Video playback error occurred",
              !.isPlaying = FALSE, !.isBuffering = FALSE]

\* handleWaiting forgetting when it called onRebuffering
handleWaitingUnmarked(h, time) ==
    [h EXCEPT !.isBuffering = TRUE, !.isPlaying = FALSE]

handleWaiting(h, time) ==
    [h EXCEPT !.isBuffering = TRUE, !.isPlaying = FALSE,
              !.lastRebufferingTime =
                  IF time - @ > RebufferingGapMs THEN time ELSE @]

handleWaitingCalls(h, time) ==
    IF time - h.lastRebufferingTime > RebufferingGapMs
    THEN << [callback |-> "onRebuffering", duration |-> 0,
             timestamp |-> time] >>
    ELSE << >>

\* The engine `new AdaptiveStreamingEngine(config)` constructs
NewEngine ==
    [ mediaSource |-> "null", sourceBuffer |-> 0, currentQuality |-> 0,
      networkMetrics |-> InitialNetworkMetrics,
      adaptiveMetrics |-> InitialAdaptiveMetrics, qualityHistory |-> << >>,
      isBuffering |-> FALSE, segmentQueue |-> << >>,
      qualitySwitchCooldown |-> 0,
      networkMonitorInterval |-> "null", bufferMonitorInterval |-> "null",
      updating |-> FALSE, buffered |-> << >>,
      microtasks |-> << >>, preloads |-> << >>,
      errorEvent |-> FALSE, updateEnds |-> 0,
      destroyRaised |-> FALSE, reentrantAppend |-> FALSE ]

\* A rebuffering episode starts when the sink's buffer falls below the
\* threshold and ends when it is above one and a half times the threshold.
\* events: increments of rebufferingEvents inside it; band: the buffer has
\* been at or above the threshold inside it; again: and below it afterwards.
NoEpisode == [started |-> FALSE, events |-> 0, band |-> FALSE, again |-> FALSE]

EpisodeAfter(e, hasBuffer, ahead, counted) ==
    IF 2 * ahead > 3 * RebufferThreshold THEN NoEpisode
    ELSE IF ~e.started /\ (~hasBuffer \/ ahead >= RebufferThreshold)
         THEN NoEpisode
    ELSE [ started |-> TRUE,
           events |-> Min(e.events + counted, MaxEpisodeEvents),
           band |-> e.band \/ ahead >= RebufferThreshold,
           again |-> e.again \/ (e.band /\ ahead < RebufferThreshold) ]

\* ------------------------------------------------------------------- Init

InitEngine ==
    /\ mediaSource = "null"
    /\ sourceBuffer = 0
    /\ currentQuality = 0
    /\ networkMetrics = InitialNetworkMetrics
    /\ adaptiveMetrics = InitialAdaptiveMetrics
    /\ qualityHistory = << >>
    /\ isBuffering = FALSE
    /\ segmentQueue = << >>
    /\ qualitySwitchCooldown = 0
    /\ networkMonitorInterval = "null"
    /\ bufferMonitorInterval = "null"
    /\ updating = FALSE
    /\ buffered = << >>
    /\ currentTime = 0
    /\ initState = "new"
    /\ microtasks = << >>
    /\ probes = 0
    /\ loads = EmptyBag
    /\ preloads = << >>
    /\ errorEvent = FALSE
    /\ updateEnds = 0
    /\ destroyCalls = 0
    /\ destroyRaised = FALSE
    /\ reentrantAppend = FALSE
    /\ forcedFrom = 0
    /\ periodTicks = 0
    /\ periodEvents = 0
    /\ forcedCooldown = FALSE
    /\ episode = NoEpisode
    /\ netDue = 0
    /\ bufDue = 0
    /\ hookDue = 0
    /\ sinceEvalSwitch = CooldownMs
    /\ evalGap = CooldownMs
    /\ hook = InitialHook
    /\ now = 0
    /\ observed = Unobserved
    /\ emittedAt = -1
    /\ unmounted = FALSE
    /\ engines = 0

Init ==
    /\ qualities = ScenarioLadder
    /\ networkCheckInterval = DefaultCheckInterval
    /\ InitEngine

\* ------------------------------------------------------------ bookkeeping

\* Seconds buffered ahead as the sink has them: none with no range
SinkAhead(ranges, time) ==
    IF ranges = << >> THEN 0 ELSE BufferAhead(ranges, time)

LowBuffer(ranges, time) == SinkAhead(ranges, time) < RebufferThreshold

\* The running low-buffer period after a step that is no buffer check
\* (ticked = FALSE) or is one (TRUE): it ends when the sink is no longer low.
\* periodTicks counts its buffer checks that found the buffer low.
Period(ticked) ==
    /\ forcedCooldown' =
          IF adaptiveMetrics'.qualitySwitches > adaptiveMetrics.qualitySwitches
          THEN \/ ticked
               \/ microtasks # << >> /\ Head(microtasks).cause = "forced"
          ELSE forcedCooldown
    /\ episode' = EpisodeAfter(episode, sourceBuffer' # 0,
                               SinkAhead(buffered', currentTime'),
                               adaptiveMetrics'.rebufferingEvents
                                 - adaptiveMetrics.rebufferingEvents)
    /\ IF LowBuffer(buffered', currentTime')
       THEN /\ periodTicks' = IF ticked /\ forcedFrom' # 0
                              THEN Min(periodTicks + 1, MaxPeriodTicks)
                              ELSE periodTicks
            /\ periodEvents' = Min(periodEvents
                                     + adaptiveMetrics'.rebufferingEvents
                                     - adaptiveMetrics.rebufferingEvents,
                                   MaxRebuffers)
       ELSE periodTicks' = 0 /\ periodEvents' = 0

\* A step that is no buffer check
NoCheck == forcedFrom' = 0 /\ Period(FALSE)

\* Room for one more switch, and for the updateend its abort may queue
SwitchRoomFor(bound) ==
    /\ adaptiveMetrics.qualitySwitches + Len(microtasks) < bound
    /\ updating => updateEnds < MaxUpdateEnds

SwitchRoom == SwitchRoomFor(MaxSwitches)

\* A loop that runs its next task with a continuation still waiting
IdleOrNot == TRUE

\* No microtask is waiting: the next task may run
Idle == microtasks = << >>

\* ---------------------------------------------------------------- actions

\* A caller calls initialize(videoElement), on an engine it has not
\* destroyed: the MediaSource is created and attached, and the promise waits
\* for sourceopen.
Initialize ==
    /\ initState = "new"
    /\ destroyCalls = 0
    /\ mediaSource' = "closed"
    /\ initState' = "pending"
    /\ UNCHANGED << configVars, sourceBuffer, currentQuality, networkMetrics,
                    adaptiveMetrics, qualityHistory, isBuffering,
                    segmentQueue, qualitySwitchCooldown,
                    networkMonitorInterval, bufferMonitorInterval, updating,
                    buffered, microtasks, preloads, errorEvent, updateEnds,
                    destroyRaised, currentTime, probes, loads,
                    destroyCalls, clockVars,
                    hostVars >>
    /\ reentrantAppend' = FALSE
    /\ NoCheck

\* The sourceopen event: setupSourceBuffer, startMonitoring, resolve; or reject.
SourceOpenStep ==
    /\ initState = "pending"
    /\ mediaSource = "closed"
    /\ \E addOk \in BOOLEAN :
          LET t == SourceOpened(This, addOk)
          IN  /\ Becomes(t)
              /\ initState' = IF t.sourceBuffer = 0
                              THEN "rejected" ELSE "resolved"
    /\ UNCHANGED << configVars, currentTime, probes, loads, destroyCalls >>
    /\ NoCheck

SourceOpen == SourceOpenStep /\ UNCHANGED << clockVars, hostVars >>

\* A tick of the network timer: updateNetworkMetrics() (not awaited), then
\* adaptQuality().  downlinks: what navigator.connection may report.
NetworkTickWithin(bound, downlinks) ==
    /\ networkMonitorInterval = "active"
    /\ Idle
    /\ probes < MaxProbes
    /\ SwitchRoomFor(bound)
    /\ \E bandwidth \in downlinks \cup {networkMetrics.bandwidth},
          addOk \in BOOLEAN :
          Becomes(adaptQuality(updateNetworkMetrics(This, bandwidth),
                               currentTime, addOk))
    /\ probes' = probes + 1
    /\ UNCHANGED << configVars, currentTime, initState, loads, destroyCalls >>
    /\ NoCheck

NetworkTickOn(downlinks) == NetworkTickWithin(MaxSwitches, downlinks)

NetworkTickStep == NetworkTickOn(Bandwidths)

NetworkTick == NetworkTickStep /\ UNCHANGED << clockVars, hostVars >>

\* The probe's fetch settles: the rest of measureThroughput and of
\* updateNetworkMetrics.  rates: what the probe may measure.
ProbeSettleOn(rates) ==
    /\ probes > 0
    /\ Idle
    /\ \E outcome \in {"ok", "notok", "failed"}, value \in rates :
          Becomes(ProbeSettled(This, outcome, value))
    /\ probes' = probes - 1
    /\ UNCHANGED << configVars, currentTime, initState, loads, destroyCalls >>
    /\ NoCheck

ProbeSettle == ProbeSettleOn(Throughputs) /\ UNCHANGED << clockVars, hostVars >>

\* A tick of the buffer timer: monitorBufferHealth(), then the call of
\* this.preventRebuffering, which the class does not define: the callback
\* ends there with a TypeError and changes nothing more.
BufferTickWithin(bound) ==
    /\ bufferMonitorInterval = "active"
    /\ Idle
    /\ Len(preloads) < MaxPreloads
    /\ SwitchRoomFor(bound)
    /\ \E addOk \in BOOLEAN :
          Becomes(monitorBufferHealth(This, currentTime, addOk))
    /\ forcedFrom' = IF sourceBuffer # 0 /\ buffered # << >>
                        /\ BufferAhead(buffered, currentTime)
                             < RebufferThreshold
                     THEN currentQuality ELSE 0
    /\ UNCHANGED << configVars, currentTime, initState, probes, loads,
                    destroyCalls >>
    /\ Period(TRUE)

BufferTickStep == BufferTickWithin(MaxSwitches)

BufferTick == BufferTickStep /\ UNCHANGED << clockVars, hostVars >>

\* A tick of the hook's monitoring interval, which runs once the hook holds
\* an initialized engine: engineRef.current.updateCooldown().
CooldownTickStep ==
    /\ initState = "resolved"
    /\ Idle
    /\ Becomes(updateCooldown(This))
    /\ UNCHANGED << configVars, currentTime, initState, probes, loads,
                    destroyCalls >>
    /\ NoCheck

CooldownTick == CooldownTickStep /\ UNCHANGED << clockVars, hostVars >>

\* The continuation of a suspended switchQuality resumes.
RunMicrotaskStep ==
    /\ microtasks # << >>
    /\ Becomes(SwitchCommit([This EXCEPT !.microtasks = Tail(@)],
                            Head(microtasks).q))
    /\ forcedFrom' = forcedFrom
    /\ Period(FALSE)
    /\ UNCHANGED << configVars, currentTime, initState, probes, loads,
                    destroyCalls >>

RunMicrotask == RunMicrotaskStep /\ UNCHANGED << clockVars, hostVars >>

\* loadSegment calls in flight that took the queueing branch
RECURSIVE CountQueueing(_)
CountQueueing(keys) ==
    IF keys = {} THEN 0
    ELSE LET l == CHOOSE k \in keys : TRUE
         IN  (IF l.branch = "queue" THEN CopiesIn(l, loads) ELSE 0)
               + CountQueueing(keys \ {l})

QueueingLoads == CountQueueing(BagToSet(loads))

\* A caller calls loadSegment(url): the branch is taken and the fetch starts.
LoadSegmentCall ==
    /\ \E segment \in Segments :
          LET load == [segment |-> segment,
                       branch |-> IF LoadQueues(This)
                                  THEN "queue" ELSE "append"]
          IN  /\ load.branch = "queue" =>
                    Len(segmentQueue) + QueueingLoads < MaxQueue
              /\ loads' = loads (+) SetToBag({load})
    /\ Becomes(This)
    /\ UNCHANGED << configVars, currentTime, initState, probes, destroyCalls,
                    periodVars >>

\* ... by a caller that awaits each call before it makes the next, and calls
\* when the source buffer exists and is not updating
LoadSegment ==
    /\ loads = EmptyBag
    /\ ~LoadQueues(This)
    /\ LoadSegmentCall
    /\ UNCHANGED << clockVars, hostVars >>

\* ... by a caller that has calls in flight or finds the source buffer busy
LoadSegmentAgain ==
    /\ loads # EmptyBag \/ LoadQueues(This)
    /\ BagCardinality(loads) < MaxLoads
    /\ LoadSegmentCall
    /\ UNCHANGED << clockVars, hostVars >>

\* The fetch of the loadSegment call `load` settles, with these outcomes.
LoadSettleStep(load, fetchOk, appendOk, addOk) ==
    /\ Idle
    /\ SwitchRoom
    /\ Becomes(LoadFetched(This, load, fetchOk, appendOk, currentTime, addOk))
    /\ loads' = loads (-) SetToBag({load})
    /\ UNCHANGED << configVars, currentTime, initState, probes, destroyCalls >>
    /\ NoCheck

\* The fetch of a loadSegment call settles.
LoadSettle ==
    /\ \E load \in BagToSet(loads), fetchOk \in BOOLEAN,
          appendOk \in BOOLEAN, addOk \in BOOLEAN :
          LoadSettleStep(load, fetchOk, appendOk, addOk)
    /\ UNCHANGED << clockVars, hostVars >>

\* A fetch of a preload settles.
PreloadSettle ==
    /\ Idle
    /\ \E p \in 1..Len(preloads), fetchOk \in BOOLEAN, appendOk \in BOOLEAN :
          Becomes(PreloadFetched(This, p, fetchOk, appendOk))
    /\ UNCHANGED << configVars, currentTime, initState, probes, loads,
                    destroyCalls, clockVars,
                    hostVars >>
    /\ NoCheck

\* The sink ends the running append: updating goes false and the buffer's
\* events are queued (error, then updateend, when the append failed); a
\* completed append may have extended the buffered ranges.
AppendEnds ==
    /\ Idle
    /\ updating
    /\ updateEnds < MaxUpdateEnds
    /\ ~errorEvent
    /\ updating' = FALSE
    /\ updateEnds' = updateEnds + 1
    /\ \E ok \in BOOLEAN :
          /\ errorEvent' = ~ok
          /\ IF ok
             THEN buffered' \in (BufferedRanges \ {<< >>}) \cup {buffered}
             ELSE buffered' = buffered
    /\ UNCHANGED << configVars, mediaSource, sourceBuffer, currentQuality,
                    networkMetrics, adaptiveMetrics, qualityHistory,
                    isBuffering, segmentQueue, qualitySwitchCooldown,
                    networkMonitorInterval, bufferMonitorInterval,
                    microtasks, preloads, destroyRaised, currentTime,
                    initState, probes, loads, destroyCalls, clockVars,
                    hostVars >>
    /\ reentrantAppend' = FALSE
    /\ NoCheck

\* The source buffer's error event reaches its listener.
ErrorEvent ==
    /\ Idle
    /\ errorEvent
    /\ SwitchRoom
    /\ \E addOk \in BOOLEAN :
          Becomes(handleBufferError([This EXCEPT !.errorEvent = FALSE],
                                    currentTime, addOk))
    /\ UNCHANGED << configVars, currentTime, initState, probes, loads,
                    destroyCalls, clockVars,
                    hostVars >>
    /\ NoCheck

\* A source buffer's updateend event reaches its listener.
UpdateEndWithin(bound) ==
    /\ Idle
    /\ updateEnds > 0
    /\ ~errorEvent
    /\ isBuffering => adaptiveMetrics.rebufferingEvents < bound
    /\ Becomes(handleBufferUpdate([This EXCEPT !.updateEnds = @ - 1]))
    /\ UNCHANGED << configVars, currentTime, initState, probes, loads,
                    destroyCalls >>
    /\ NoCheck

UpdateEndEvent ==
    /\ UpdateEndWithin(MaxRebuffers)
    /\ UNCHANGED << clockVars, hostVars >>

\* Playback moves the position, or the sink evicts what it had buffered.
SinkChangeOn(positions) ==
    /\ Idle
    /\ sourceBuffer # 0
    /\ \/ /\ currentTime' \in positions \ {currentTime}
          /\ buffered' = buffered
       \/ /\ buffered # << >>
          /\ buffered' = << >>
          /\ currentTime' = currentTime
    /\ UNCHANGED << configVars, mediaSource, sourceBuffer, currentQuality,
                    networkMetrics, adaptiveMetrics, qualityHistory,
                    isBuffering, segmentQueue, qualitySwitchCooldown,
                    networkMonitorInterval, bufferMonitorInterval, updating,
                    microtasks, preloads, errorEvent, updateEnds,
                    destroyRaised, initState, probes, loads, destroyCalls >>
    /\ reentrantAppend' = FALSE
    /\ NoCheck

SinkChange == SinkChangeOn(Positions) /\ UNCHANGED << clockVars, hostVars >>

\* A caller calls destroy().
Destroy ==
    /\ destroyCalls < MaxDestroys
    /\ Becomes(destroy(This))
    /\ destroyCalls' = destroyCalls + 1
    /\ UNCHANGED << configVars, currentTime, initState, probes, loads,
                    forcedFrom, clockVars,
                    hostVars >>
    /\ Period(FALSE)

\* An engine on the ladder of the spec's scenarios, its sink, and a caller
\* that loads one segment at a time and does not destroy the engine.
Next ==
    \/ Initialize
    \/ SourceOpen
    \/ NetworkTick
    \/ ProbeSettle
    \/ BufferTick
    \/ CooldownTick
    \/ RunMicrotask
    \/ LoadSegment
    \/ LoadSettle
    \/ PreloadSettle
    \/ AppendEnds
    \/ ErrorEvent
    \/ UpdateEndEvent
    \/ SinkChange

Spec == Init /\ [][Next]_vars

\* An engine whose caller may call destroy() at any moment, up to twice, on
\* a sink whose position stays at the start.
NextDestroy ==
    \/ Initialize
    \/ SourceOpen
    \/ NetworkTick
    \/ ProbeSettle
    \/ BufferTick
    \/ CooldownTick
    \/ RunMicrotask
    \/ LoadSegment
    \/ LoadSettle
    \/ AppendEnds
    \/ ErrorEvent
    \/ UpdateEndEvent
    \/ Destroy

SpecDestroy == Init /\ [][NextDestroy]_vars

\* Loading alone, on any of the ladders, with a caller that does not wait for
\* loadSegment to return or for the source buffer to be ready.
InitLadder ==
    /\ qualities \in Ladders
    /\ networkCheckInterval = DefaultCheckInterval
    /\ InitEngine

NextLoad ==
    \/ Initialize
    \/ SourceOpen
    \/ BufferTick
    \/ RunMicrotask
    \/ LoadSegment
    \/ LoadSegmentAgain
    \/ LoadSettle
    \/ PreloadSettle
    \/ AppendEnds
    \/ ErrorEvent
    \/ UpdateEndEvent
    \/ SinkChange

SpecLoad == InitLadder /\ [][NextLoad]_vars

\* Bandwidth evaluation alone, on any of the ladders: the sink stays empty,
\* so that every switch runs to its end inside the tick that asked for it.
SampleTick == NetworkTickOn(SampleRates) /\ UNCHANGED << clockVars, hostVars >>

SampleSettle == ProbeSettleOn(SampleRates) /\ UNCHANGED << clockVars, hostVars >>

NextSelect ==
    \/ Initialize
    \/ SourceOpen
    \/ SampleTick
    \/ SampleSettle
    \/ CooldownTick

SpecSelect == InitLadder /\ [][NextSelect]_vars

\* ------------------------------------------------------------ timed runs

\* Time advances in steps of half the cooldown's decrement; every interval
\* explored is a multiple of it.
TimeStep == CooldownStepMs \div 2

\* The evaluation history after a network tick: a switch it made is an
\* evaluation-driven one, and its distance to the previous one is recorded.
EvalHistory ==
    IF adaptiveMetrics'.qualitySwitches > adaptiveMetrics.qualitySwitches
    THEN /\ evalGap' = Min(evalGap, sinceEvalSwitch)
         /\ sinceEvalSwitch' = 0
    ELSE UNCHANGED << evalGap, sinceEvalSwitch >>

\* sourceopen: startMonitoring sets both intervals, and the hook, whose
\* initialize() returns in the same turn of the event loop, sets its own.
TimedSourceOpen ==
    /\ SourceOpenStep
    /\ netDue' = networkCheckInterval
    /\ bufDue' = BufferCheckMs
    /\ hookDue' = HookTickMs
    /\ UNCHANGED << sinceEvalSwitch, evalGap, hostVars >>

\* Timers that are due at the same moment run in any order.
TimedNetworkTick ==
    /\ netDue = 0
    /\ NetworkTickStep
    /\ netDue' = networkCheckInterval
    /\ UNCHANGED << bufDue, hookDue, hostVars >>
    /\ EvalHistory

TimedBufferTick ==
    /\ bufDue = 0
    /\ BufferTickStep
    /\ bufDue' = BufferCheckMs
    /\ UNCHANGED << netDue, hookDue, sinceEvalSwitch, evalGap, hostVars >>

TimedCooldownTick ==
    /\ hookDue = 0
    /\ CooldownTickStep
    /\ hookDue' = HookTickMs
    /\ UNCHANGED << netDue, bufDue, sinceEvalSwitch, evalGap, hostVars >>

\* TimeStep milliseconds pass while no timer is due.
Advance ==
    /\ initState = "resolved"
    /\ Idle
    /\ netDue > 0 /\ bufDue > 0 /\ hookDue > 0
    /\ netDue' = netDue - TimeStep
    /\ bufDue' = bufDue - TimeStep
    /\ hookDue' = hookDue - TimeStep
    /\ sinceEvalSwitch' = Min(sinceEvalSwitch + TimeStep, CooldownMs)
    /\ evalGap' = evalGap
    /\ Becomes(This)
    /\ UNCHANGED << configVars, currentTime, initState, probes, loads,
                    destroyCalls, hostVars >>
    /\ NoCheck

InitTimed ==
    /\ qualities = ScenarioLadder
    /\ networkCheckInterval \in CheckIntervals
    /\ InitEngine

\* The engine under its three timers, with the time between their ticks.
NextTimed ==
    \/ Initialize
    \/ TimedSourceOpen
    \/ TimedNetworkTick
    \/ ProbeSettle
    \/ TimedBufferTick
    \/ TimedCooldownTick
    \/ Advance

SpecTimed == InitTimed /\ [][NextTimed]_vars

\* ------------------------------------------------------------- properties

\* C1: any two quality switches made by bandwidth evaluation (adaptQuality)
\* are at least the cooldown duration, 2000 ms, apart, whatever the sequence
\* of network, buffer and cooldown ticks.
C1_EvalSwitchesCooldownApart == evalGap >= CooldownMs

\* C2: a continuous period in which the buffered-ahead time stays below
\* rebufferThreshold, and in which a buffer check found it so, has counted
\* exactly one rebufferingEvents increment when it ends.
C2_OneEventPerLowPeriod ==
    [][ ( /\ LowBuffer(buffered, currentTime)
          /\ ~LowBuffer(buffered', currentTime')
          /\ periodTicks >= 1 )
        => periodEvents = 1 ]_vars

\* C3: once a buffer check that found the buffer below rebufferThreshold is
\* over, the current quality is one ladder index below the one before it (the
\* lowest stays), the engine is in cooldown and one rebuffering event is
\* recorded.
C3_ForcedDowngrade ==
    (forcedFrom # 0 /\ Idle)
    => /\ currentQuality = Max(forcedFrom - 1, 1)
       /\ forcedFrom > 1 => qualitySwitchCooldown > 0
       /\ adaptiveMetrics.rebufferingEvents >= 1

\* The ladder entries whose bitrate is within ten times target10
Fitting(target10) ==
    {i \in 1..Len(qualities) : qualities[i].bitrate * 10 <= target10}

\* A network tick whose evaluation switched the quality, the switch done
EvalSwitched ==
    /\ probes' = probes + 1
    /\ adaptiveMetrics'.qualitySwitches > adaptiveMetrics.qualitySwitches

\* C4: the quality a bandwidth evaluation selects has a bitrate of at most
\* 0.8 * min(bandwidth, throughput) of the sample it evaluated; only when no
\* ladder entry has, the first entry of the ladder is selected.
C4_SelectedWithinTarget ==
    [][ EvalSwitched
        => LET fitting == Fitting(TargetBitrate10(networkMetrics'))
           IN  IF fitting # {}
               THEN currentQuality' \in fitting
               ELSE currentQuality' = 1 ]_vars

\* C5: selectQualityForBitrate returns the highest-bitrate ladder entry whose
\* bitrate is at most the target: no entry within the target has a bitrate
\* above that of the entry an evaluation switched to.
C5_HighestWithinTarget ==
    [][ EvalSwitched
        => \A i \in Fitting(TargetBitrate10(networkMetrics')) :
              qualities[i].bitrate <= qualities[currentQuality'].bitrate ]_vars

\* C6: in every state after initialize() resolved, suspension points of
\* switchQuality included, getMetrics().currentQuality, the engine's
\* currentQuality and the level the source buffer was created for name the
\* same ladder entry.
C6_SwitchAtomic ==
    initState = "resolved"
    => /\ currentQuality \in 1..Len(qualities)
       /\ adaptiveMetrics.currentQuality = currentQuality
       /\ sourceBuffer = currentQuality

\* a caller runs while a switch is suspended, and after a switch completed
C6_Witness ==
    /\ initState = "resolved"
    /\ microtasks # << >>
    /\ adaptiveMetrics.qualitySwitches >= 1

\* C7: appendBuffer is never called while an earlier append is pending.
C7_OneAppendInFlight == ~reentrantAppend

\* C8: once destroy() has returned, no network tick and no buffer tick runs.
C8_NoTickAfterDestroy ==
    [][ destroyCalls > 0 => ~(NetworkTick \/ BufferTick) ]_vars

\* C9: a continuation that resumes after destroy() (of a throughput probe, of
\* loadSegment, of a preload, of switchQuality) leaves the network metrics,
\* the current quality, the switch count, the history, the cooldown, the
\* segment queue and the source buffer as they are.
C9_NoMutationAfterDestroy ==
    [][ ( /\ destroyCalls > 0
          /\ ProbeSettle \/ LoadSettle \/ PreloadSettle \/ RunMicrotask )
        => /\ UNCHANGED << networkMetrics, currentQuality, qualityHistory,
                           qualitySwitchCooldown, segmentQueue,
                           sourceBuffer >>
           /\ adaptiveMetrics'.qualitySwitches
                = adaptiveMetrics.qualitySwitches ]_vars

\* C10: in every state, a second call of destroy() that follows a first one
\* raises no error, and the engine after the two calls is the engine after
\* the first: no timer is cancelled and no media source ended by the second.
C10_DestroyIdempotent ==
    LET once == destroy(This)
        twice == destroy(once)
    IN  /\ ~twice.destroyRaised
        /\ twice = once

\* ------------------------------------------------------- timers that tick

\* The engine under its two timers and the hook's, on an empty sink; the
\* hook's interval, once set, fires for as long as the page lives.
NextLive ==
    \/ Initialize
    \/ SourceOpen
    \/ SampleTick
    \/ SampleSettle
    \/ BufferTick
    \/ CooldownTick

SpecLive ==
    /\ Init
    /\ [][NextLive]_vars
    /\ WF_vars(CooldownTick)

\* C11: a cooldown decreases by one step on a tick, and with the ticks going
\* on it reaches 0, where adaptQuality evaluates again: the engine does not
\* stay in cooldown forever.
C11_CooldownElapses ==
    /\ [][ qualitySwitchCooldown' < qualitySwitchCooldown
           => qualitySwitchCooldown' = qualitySwitchCooldown - CooldownStepMs
         ]_vars
    /\ (qualitySwitchCooldown > 0) ~> (qualitySwitchCooldown = 0)

\* a switch was made and its cooldown has run out
C11_Witness ==
    /\ adaptiveMetrics.qualitySwitches >= 1
    /\ qualitySwitchCooldown = 0

\* C13: initialize() does not resolve when the ladder is empty or when the
\* creation of the source buffer was rejected: once its promise is settled
\* in one of these cases, it is rejected.
C13_InitializeRejects ==
    (initState \in {"resolved", "rejected"}
       /\ (Len(qualities) = 0 \/ sourceBuffer = 0))
    => initState = "rejected"

\* initialize() was rejected on an empty ladder
C13_Witness ==
    /\ initState = "rejected"
    /\ Len(qualities) = 0

\* C15: after every buffer check bufferHealth is within 0..100, the
\* buffered-ahead time it stands for never being negative.
C15_BufferHealthInRange ==
    /\ adaptiveMetrics.bufferHealth >= 0
    /\ adaptiveMetrics.bufferHealth <= 100

\* C16: the userExperience of getMetrics() is the class its bufferHealth and
\* networkStability fall in: excellent when both are at least 90, else good
\* when both are at least 70, else fair when both are at least 50, else poor.
C16_ExperienceDerived ==
    LET least == Min(adaptiveMetrics.bufferHealth,
                     adaptiveMetrics.networkStability)
    IN  adaptiveMetrics.userExperience
          = IF least >= 90 THEN "excellent"
            ELSE IF least >= 70 THEN "good"
            ELSE IF least >= 50 THEN "fair"
            ELSE "poor"

\* C17: the ladder an engine was constructed with is in non-decreasing order
\* of bitrate, from construction on.
C17_LadderOrdered ==
    \A i, j \in 1..Len(qualities) :
        i <= j => qualities[i].bitrate <= qualities[j].bitrate

\* ------------------------------------------------------ the hook's handlers

\* The component calls the hook's initialize(videoElement) while the hook
\* holds no engine and no earlier call is waiting: a new engine is made and
\* its initialize() awaited.
HookInitialize ==
    /\ ~unmounted
    /\ hook.engineRef = "null"
    /\ initState \in {"new", "rejected"}
    /\ destroyCalls = 0
    /\ Becomes([NewEngine EXCEPT !.mediaSource = "closed"])
    /\ initState' = "pending"
    /\ hook' = hookInitialize(hook)
    /\ engines' = engines + 1
    /\ observed' = Unobserved
    /\ UNCHANGED << configVars, currentTime, probes, loads, destroyCalls,
                    clockVars, now, emittedAt,
                    unmounted >>
    /\ NoCheck

\* The hook's initialize is called again while an earlier call is waiting at
\* 'await engine.initialize(videoElement)': engineRef is still null, so a
\* further engine is made.  Its initialize() gives the video element a new
\* media source, which detaches the one of the engine before: that engine,
\* which has no timer yet, gets no event any more and its call never returns.
HookInitializeAgain ==
    /\ ~unmounted
    /\ hook.engineRef = "null"
    /\ initState = "pending"
    /\ engines < MaxEngines
    /\ Becomes([NewEngine EXCEPT !.mediaSource = "closed"])
    /\ hook' = hookInitialize(hook)
    /\ engines' = engines + 1
    /\ observed' = Unobserved
    /\ UNCHANGED << configVars, currentTime, initState, probes, loads,
                    destroyCalls, clockVars, now, emittedAt, unmounted >>
    /\ NoCheck

\* sourceopen on the engine the hook is waiting for, then the rest of the
\* hook's initialize
HookSourceOpen ==
    /\ SourceOpenStep
    /\ hook' = IF initState' = "resolved"
               THEN hookInitializeResolved(hook)
               ELSE hookInitializeRejected(hook, InitializeError(This'))
    /\ engines' = IF initState' = "resolved" THEN engines ELSE engines - 1
    /\ observed' = Unobserved
    /\ UNCHANGED << clockVars, now, emittedAt,
                    unmounted >>

\* A tick of the hook's monitoring interval with an engine held: the metrics
\* are fetched, updateCooldown() is called, the hook's state follows.
HookTick ==
    /\ hook.updateIntervalRef = "active"
    /\ hook.engineRef # "null"
    /\ CooldownTickStep
    /\ hook' = hookMonitor(hook, This)
    /\ observed' = [Unobserved EXCEPT !.called = hookMonitorCalls(hook, This)]
    /\ UNCHANGED << clockVars, now, emittedAt,
                    unmounted, engines >>

\* The component calls the hook's loadSegment(url) with an engine held; with
\* none the call throws and nothing changes.
HookLoadSegment ==
    /\ ~unmounted
    /\ hook.engineRef # "null"
    /\ BagCardinality(loads) < MaxLoads
    /\ LoadSegmentCall
    /\ observed' = Unobserved
    /\ UNCHANGED << clockVars, hook, now, emittedAt,
                    unmounted, engines >>

\* The engine's loadSegment settles, then the rest of the hook's loadSegment
HookLoadSettle ==
    /\ \E load \in BagToSet(loads), fetchOk \in BOOLEAN,
          appendOk \in BOOLEAN, addOk \in BOOLEAN :
          /\ LoadSettleStep(load, fetchOk, appendOk, addOk)
          /\ hook' = hookLoadSegmentSettled(hook, LoadRejects(load, fetchOk))
          /\ observed' = [Unobserved EXCEPT !.loadFailed =
                              LoadFailed(This, load, fetchOk, appendOk)]
    /\ UNCHANGED << clockVars, now, emittedAt,
                    unmounted, engines >>

\* The component calls the hook's switchQuality(qualityId), with an id of
\* the ladder or the one id past it, which no rung has.
HookSwitchQuality ==
    /\ ~unmounted
    /\ \E qualityId \in 1..(Len(qualities) + 1) :
          /\ hook' = hookSwitchQuality(hook, qualityId)
          /\ observed' = [Unobserved EXCEPT
                              !.called = hookSwitchQualityCalls(hook,
                                                                qualityId),
                              !.asked = qualityId]
    /\ UNCHANGED << engineState, now, emittedAt,
                    unmounted, engines >>

\* A holder of the metrics record the hook's state carries writes into it.
MutateSnapshot ==
    /\ ~unmounted
    /\ hook.engineRef # "null"
    /\ Read(hook.metrics, adaptiveMetrics).bufferHealth # 0
    /\ IF hook.metrics.live
       THEN /\ Becomes([This EXCEPT !.adaptiveMetrics.bufferHealth = 0])
            /\ hook' = hook
       ELSE /\ Becomes(This)
            /\ hook' = [hook EXCEPT !.metrics.value.bufferHealth = 0]
    /\ observed' = Unobserved
    /\ UNCHANGED << configVars, currentTime, initState, probes, loads,
                    destroyCalls, clockVars, now, emittedAt,
                    unmounted, engines >>
    /\ NoCheck

\* The video element's events reach the hook's listeners
HandlePlay ==
    /\ ~unmounted
    /\ hook' = handlePlay(hook)
    /\ observed' = Unobserved
    /\ UNCHANGED << engineState, now, emittedAt,
                    unmounted, engines >>

HandlePause ==
    /\ ~unmounted
    /\ hook' = handlePause(hook)
    /\ observed' = Unobserved
    /\ UNCHANGED << engineState, now, emittedAt,
                    unmounted, engines >>

HandleCanPlay ==
    /\ ~unmounted
    /\ hook' = handleCanPlay(hook)
    /\ observed' = Unobserved
    /\ UNCHANGED << engineState, now, emittedAt,
                    unmounted, engines >>

HandleError ==
    /\ ~unmounted
    /\ hook' = handleError(hook)
    /\ observed' = Unobserved
    /\ UNCHANGED << engineState, now, emittedAt,
                    unmounted, engines >>

HandleWaiting ==
    /\ ~unmounted
    /\ hook' = handleWaiting(hook, now)
    /\ observed' = [Unobserved EXCEPT
                        !.called = handleWaitingCalls(hook, now),
                        !.event = "waiting"]
    /\ emittedAt' = IF handleWaitingCalls(hook, now) # << >>
                    THEN now ELSE emittedAt
    /\ UNCHANGED << engineState, now, unmounted, engines >>

\* Time passes on the page's clock
Elapse ==
    /\ now < MaxElapses * ElapseMs
    /\ now' = now + ElapseMs
    /\ UNCHANGED << engineState, hook, observed, emittedAt, unmounted, engines >>

\* The hook with its engine: initialisation, monitoring, switching, on any
\* of the ladders
NextHook ==
    \/ HookInitialize
    \/ HookSourceOpen
    \/ HookTick
    \/ SampleTick
    \/ SampleSettle
    \/ HookSwitchQuality
    \/ MutateSnapshot

SpecHook == InitLadder /\ [][NextHook]_vars

\* The hook loading segments through its engine
NextHookLoad ==
    \/ HookInitialize
    \/ HookSourceOpen
    \/ SampleTick
    \/ SampleSettle
    \/ HookLoadSegment
    \/ HookLoadSettle
    \/ AppendEnds
    \/ RunMicrotask

SpecHookLoad == InitLadder /\ [][NextHookLoad]_vars

\* The hook's listeners alone, on the page's clock
NextHookEvents ==
    \/ HandlePlay
    \/ HandlePause
    \/ HandleCanPlay
    \/ HandleError
    \/ HandleWaiting
    \/ Elapse

SpecHookEvents == Init /\ [][NextHookEvents]_vars

\* C12: when the fetch or the append inside loadSegment fails, the failure
\* reaches the caller: the hook's loadSegment has recorded an error message.
C12_LoadFailureSurfaced == observed.loadFailed => hook.error # "null"

\* C14: getMetrics() and getNetworkMetrics() leave the engine as it is and
\* return copies: a record the hook holds reads the same after every step
\* that does not replace or write it, whatever the engine did meanwhile, and
\* a write into a returned record changes neither of the engine's records
\* (so no later snapshot either).
C14_SnapshotCopies ==
    [][ /\ hook'.metrics = hook.metrics =>
              Read(hook.metrics, adaptiveMetrics)'
                 = Read(hook.metrics, adaptiveMetrics)
        /\ hook'.networkMetrics = hook.networkMetrics =>
              Read(hook.networkMetrics, networkMetrics)'
                 = Read(hook.networkMetrics, networkMetrics)
        /\ MutateSnapshot =>
              /\ adaptiveMetrics' = adaptiveMetrics
              /\ networkMetrics' = networkMetrics
              /\ getMetrics(This)' = getMetrics(This)
        /\ HookTick =>
              /\ adaptiveMetrics' = adaptiveMetrics
              /\ networkMetrics' = networkMetrics
              /\ hook'.metrics.value = adaptiveMetrics
              /\ hook'.networkMetrics.value = networkMetrics ]_vars

\* A record getMetrics() returned was written by its holder, and the engine
\* has switched since: the two differ in both fields.
C14_Witness ==
    /\ hook.metrics.value.currentQuality # 0
    /\ hook.metrics.value.bufferHealth = 0
    /\ adaptiveMetrics.bufferHealth # 0
    /\ hook.metrics.value.qualitySwitches < adaptiveMetrics.qualitySwitches

\* C19: once engine.initialize() was rejected, the hook is not initialized,
\* its error is the rejection's message, it has no monitoring interval and
\* holds no engine, and its initialize() can be called again.
C19_RejectedInitialize ==
    initState = "rejected" =>
        /\ ~hook.isInitialized
        /\ hook.error = InitializeError(This)
        /\ hook.updateIntervalRef = "null"
        /\ hook.engineRef = "null"
        /\ ENABLED HookInitialize

\* addSourceBuffer failed on a ladder with levels
C19_Witness ==
    /\ initState = "rejected"
    /\ hook.error = "addSourceBuffer failed"
    /\ Len(qualities) > 0

\* C20: the hook's switchQuality(id), with an engine held and id a level of
\* config.qualities, sets the hook's currentQuality to id and calls
\* onQualityChange(id) once; with any other id, or no engine, it changes no
\* state and calls nothing.
C20_HookSwitchQuality ==
    [][ HookSwitchQuality =>
          LET id == observed'.asked
          IN  IF hook.engineRef # "null" /\ id \in 1..Len(qualities)
              THEN /\ hook' = [hook EXCEPT !.currentQuality = id]
                   /\ observed'.called =
                         << [callback |-> "onQualityChange", quality |-> id] >>
              ELSE /\ hook' = hook
                   /\ observed'.called = << >> ]_vars

\* switchQuality(id) was called for a level the engine is not on, and did it
C20_Witness ==
    /\ hook.engineRef # "null"
    /\ observed.asked \in 1..Len(qualities)
    /\ hook.currentQuality = observed.asked
    /\ Len(observed.called) = 1
    /\ adaptiveMetrics.currentQuality # observed.asked

\* C18: every 'waiting' event leaves the hook with isBuffering true and
\* isPlaying false; it calls nothing but onRebuffering({duration: 0,
\* timestamp: now}), once, and only when more than 5000 ms have passed since
\* the last such call: an event within 5000 ms of one calls nothing.
C18_WaitingDebounced ==
    [][ HandleWaiting =>
          /\ hook'.isBuffering
          /\ ~hook'.isPlaying
          /\ \/ observed'.called = << >>
             \/ /\ observed'.called =
                       << [callback |-> "onRebuffering", duration |-> 0,
                           timestamp |-> now] >>
                /\ emittedAt # -1 => now - emittedAt > RebufferingGapMs
          /\ (emittedAt # -1 /\ now - emittedAt <= RebufferingGapMs) =>
                observed'.called = << >> ]_vars

\* A 'waiting' event that came after a call of onRebuffering, within
\* 5000 ms of it, and called nothing
C18_Witness ==
    /\ observed.event = "waiting"
    /\ observed.called = << >>
    /\ emittedAt # -1
    /\ now > emittedAt
    /\ now - emittedAt <= RebufferingGapMs
    /\ hook.isBuffering

\* ------------------------------------------------------------- unmounting

\* The hook's cleanup effect on its refs
hookUnmount(h) == [h EXCEPT !.updateIntervalRef = ClearInterval(@)]

\* The component unmounts: the cleanup effect clears the interval it finds
\* in updateIntervalRef and destroys the engine it finds in engineRef.
Unmount ==
    /\ ~unmounted
    /\ Idle
    /\ unmounted' = TRUE
    /\ hook' = hookUnmount(hook)
    /\ IF hook.engineRef # "null"
       THEN Becomes(destroy(This)) /\ destroyCalls' = destroyCalls + 1
       ELSE Becomes(This) /\ destroyCalls' = destroyCalls
    /\ observed' = Unobserved
    /\ UNCHANGED << configVars, currentTime, initState, probes, loads,
                    forcedFrom, clockVars, now, emittedAt, engines >>
    /\ Period(FALSE)

\* The hook with its engine, in a component that may unmount at any moment
NextUnmount ==
    \/ HookInitialize
    \/ HookSourceOpen
    \/ HookTick
    \/ SampleTick
    \/ SampleSettle
    \/ Unmount

SpecUnmount == InitLadder /\ [][NextUnmount]_vars

\* C21: after the unmount, once the hook's initialize() has run to its end,
\* no monitoring interval of the hook is active and the engine the hook
\* constructed has had destroy() called.
C21_UnmountCleansUp ==
    (unmounted /\ initState = "resolved") =>
        /\ hook.updateIntervalRef # "active"
        /\ destroyCalls > 0

\* ------------------------------------------------- the rebuffering guard

\* A tick of the buffer timer, in the runs that follow the guard further
GuardTick ==
    /\ BufferTickWithin(MaxGuardSwitches)
    /\ UNCHANGED << clockVars, hostVars >>

\* The guard at work on the scenario's ladder: evaluation takes the engine
\* up, the sink runs low, segments and preloads are appended.
NextGuard ==
    \/ Initialize
    \/ SourceOpen
    \/ NetworkTick
    \/ ProbeSettle
    \/ GuardTick
    \/ CooldownTick
    \/ RunMicrotask
    \/ LoadSegment
    \/ LoadSettle
    \/ PreloadSettle
    \/ AppendEnds
    \/ ErrorEvent
    \/ UpdateEndEvent
    \/ SinkChange

SpecGuard == Init /\ [][NextGuard]_vars

\* C22: a buffer check that finds the buffer low, in a period in which an
\* earlier check found it low already, asks for no downgrade while the
\* cooldown of a forced downgrade is running.
C22_OneDowngradePerCooldown ==
    [][ ( /\ GuardTick
          /\ forcedFrom' # 0
          /\ periodTicks >= 1
          /\ forcedCooldown
          /\ qualitySwitchCooldown > 0 )
        => /\ adaptiveMetrics'.qualitySwitches = adaptiveMetrics.qualitySwitches
           /\ microtasks' = microtasks ]_vars

\* C23: quality switches are totally ordered.  While a switchQuality is
\* suspended it is the only one, and the next step that touches what a
\* switch writes is its own completion, which swaps the source buffer and
\* updates current quality, switch count, history and cooldown together; no
\* evaluation and no other switch begins before.
C23_SwitchesOrdered ==
    [][ microtasks # << >> =>
          /\ Len(microtasks) = 1
          /\ \/ /\ microtasks' = microtasks
                /\ UNCHANGED << sourceBuffer, currentQuality, adaptiveMetrics,
                                qualityHistory, qualitySwitchCooldown,
                                networkMetrics >>
             \/ /\ microtasks' = << >>
                /\ sourceBuffer' = Head(microtasks).q
                /\ currentQuality' = Head(microtasks).q
                /\ adaptiveMetrics'.qualitySwitches
                      = adaptiveMetrics.qualitySwitches + 1
                /\ qualityHistory' = Append(qualityHistory, Head(microtasks).q)
                /\ qualitySwitchCooldown' = CooldownMs ]_vars

\* A switch is suspended, after an earlier one has completed
C23_Witness ==
    /\ microtasks # << >>
    /\ adaptiveMetrics.qualitySwitches >= 1

\* C24: when a buffer check finds the buffer low and its forced downgrade
\* starts, the preload the same check issues fetches at the level below the
\* one the check found, not at the level it found.
C24_PreloadAtLoweredLevel ==
    [][ ( /\ forcedFrom' > 1
          /\ Len(preloads') > Len(preloads)
          /\ \/ microtasks' # microtasks
             \/ adaptiveMetrics'.qualitySwitches
                   > adaptiveMetrics.qualitySwitches )
        => preloads'[Len(preloads')] = << forcedFrom' - 1 >> ]_vars

\* ------------------------------------------------------------- episodes

\* Playback moves the position to and fro around the threshold
SinkMove ==
    /\ SinkChangeOn(EpisodePositions)
    /\ UNCHANGED << clockVars, hostVars >>

\* updateend, in the runs that count more than one rebuffering event
UpdateEndCounted ==
    /\ UpdateEndWithin(MaxEpisodeEvents)
    /\ UNCHANGED << clockVars, hostVars >>

\* Segments are loaded, some loads fail, and the position moves around the
\* threshold; the engine stays on the level it started on.
NextEpisode ==
    \/ Initialize
    \/ SourceOpen
    \/ BufferTick
    \/ LoadSegment
    \/ LoadSettle
    \/ PreloadSettle
    \/ AppendEnds
    \/ ErrorEvent
    \/ UpdateEndCounted
    \/ SinkMove

SpecEpisode == Init /\ [][NextEpisode]_vars

\* C25: inside one rebuffering episode, which lasts until the buffer is
\* above threshold * 1.5, rebufferingEvents is incremented at most once: not
\* again after the buffer went up to the threshold or above and fell below
\* it again.
C25_OneEventPerEpisode ==
    [][ (episode.again /\ episode.events >= 1 /\ episode'.started)
        => adaptiveMetrics'.rebufferingEvents
             = adaptiveMetrics.rebufferingEvents ]_vars

\* Nothing is in flight or queued that could still change the engine
Quiescent ==
    /\ initState = "resolved"
    /\ loads = EmptyBag
    /\ preloads = << >>
    /\ microtasks = << >>
    /\ ~updating
    /\ updateEnds = 0
    /\ ~errorEvent

\* C26: a failed loadSegment leaves no flag behind: once everything the
\* engine had in flight is over, isBuffering (set while the failure was
\* handled) is not set any more.
C26_NoFlagLeftSet == Quiescent => ~isBuffering

\* ------------------------------------------------------ the initial level

\* A caller calls initialize(videoElement) again on an engine that is
\* running: a new MediaSource is created and attached; the fields keep what
\* they hold, the network metrics sampled so far among them.
Reinitialize ==
    /\ initState = "resolved"
    /\ destroyCalls = 0
    /\ Idle
    /\ probes = 0
    /\ Becomes([This EXCEPT !.mediaSource = "closed"])
    /\ initState' = "pending again"
    /\ UNCHANGED << configVars, currentTime, probes, loads, destroyCalls,
                    clockVars, hostVars >>
    /\ NoCheck

\* The sourceopen event of that MediaSource
SourceReopen ==
    /\ initState = "pending again"
    /\ mediaSource = "closed"
    /\ \E addOk \in BOOLEAN :
          LET set == setupSourceBuffer([This EXCEPT !.mediaSource = "open"],
                                       addOk)
              threw == set.currentQuality = 0 \/ ~addOk
          IN  /\ Becomes(IF threw THEN set ELSE startMonitoring(set))
              /\ initState' = IF threw THEN "rejected" ELSE "resolved"
    /\ UNCHANGED << configVars, currentTime, probes, loads, destroyCalls,
                    clockVars, hostVars >>
    /\ NoCheck

\* Initialisation on any of the ladders, before and after network samples
NextInitial ==
    \/ Initialize
    \/ SourceOpen
    \/ SampleTick
    \/ SampleSettle
    \/ Reinitialize
    \/ SourceReopen

SpecInitial == InitLadder /\ [][NextInitial]_vars

\* The lowest and the highest bitrate of the ladder
LowestBitrate ==
    CHOOSE b \in {qualities[i].bitrate : i \in 1..Len(qualities)} :
        \A i \in 1..Len(qualities) : b <= qualities[i].bitrate

HighestBitrate ==
    CHOOSE b \in {qualities[i].bitrate : i \in 1..Len(qualities)} :
        \A i \in 1..Len(qualities) : b >= qualities[i].bitrate

HistoryTick ==
    /\ NetworkTickWithin(MaxHistorySwitches, HistoryRates)
    /\ UNCHANGED << clockVars, hostVars >>

HistorySettle ==
    /\ ProbeSettleOn(HistoryRates)
    /\ UNCHANGED << clockVars, hostVars >>

\* The network goes up and down and the engine follows it, one switch after
\* the other
NextHistory ==
    \/ Initialize
    \/ SourceOpen
    \/ HistoryTick
    \/ HistorySettle
    \/ CooldownTick

SpecHistory == Init /\ [][NextHistory]_vars

\* C28: the quality history holds at most the last 10 ids
C28_HistoryBounded == Len(qualityHistory) <= HistoryWindow

\* ----------------------------------------------------------- the cooldown

\* C29: the remaining cooldown is never negative: a cooldown tick takes one
\* step off it while it is above 0 and leaves it alone at 0, whatever
\* switches and ticks came before
C29_CooldownNeverNegative ==
    [][ /\ qualitySwitchCooldown >= 0
        /\ qualitySwitchCooldown' >= 0
        /\ CooldownTick =>
              qualitySwitchCooldown' = IF qualitySwitchCooldown > 0
                                       THEN qualitySwitchCooldown - CooldownStepMs
                                       ELSE 0 ]_vars

\* A switch started the cooldown and the ticks have brought it back to 0
C29_Witness ==
    /\ adaptiveMetrics.qualitySwitches > 0
    /\ qualitySwitchCooldown = 0

\* ------------------------------------------------------ the configuration

\* The constructor stores the configuration it is given as it is.
InitConfig ==
    /\ qualities \in Ladders
    /\ networkCheckInterval \in ConfiguredIntervals
    /\ InitEngine

\* setInterval takes a delay of 0 or less as the shortest one: the network
\* ticks of such an engine come as those of any other, only sooner.
SpecConfig == InitConfig /\ [][NextSelect]_vars

\* C30: an engine configured with an empty quality ladder or with a network
\* check interval of 0 or less fails at construction or initialize time: its
\* initialize() does not resolve and it starts no monitoring
C30_ConfigurationRejected ==
    (Len(qualities) = 0 \/ networkCheckInterval <= 0)
        => /\ initState # "resolved"
           /\ networkMonitorInterval # "active"

\* ------------------------------------------------------- equal bitrates

InitTied ==
    /\ qualities \in TiedLadders
    /\ networkCheckInterval = DefaultCheckInterval
    /\ InitEngine

SpecTied == InitTied /\ [][NextSelect]_vars

\* C31: among the ladder entries that share the bitrate of the level an
\* evaluation selects, the selected one has the largest resolution, and of
\* those with that resolution too it is the earliest of the ladder
C31_TieBreak ==
    [][ adaptiveMetrics'.qualitySwitches > adaptiveMetrics.qualitySwitches
        => \A j \in 1..Len(qualities) :
             qualities[j].bitrate = qualities[currentQuality'].bitrate
               => \/ qualities[j].height < qualities[currentQuality'].height
                  \/ /\ qualities[j].height = qualities[currentQuality'].height
                     /\ currentQuality' <= j ]_vars

\* -------------------------------------------------------- a failing probe

\* The probe's fetch is rejected
ProbeFails ==
    /\ probes > 0
    /\ Idle
    /\ Becomes(ProbeSettled(This, "failed", 0))
    /\ probes' = probes - 1

\* C32: when the throughput probe of a network tick fails, the sample keeps
\* the throughput of the sample before it
C32_FailedProbeKeepsThroughput ==
    [][ ProbeFails => networkMetrics'.throughput = networkMetrics.throughput ]_vars

\* ---------------------------------------------------------- an empty sink

\* C33: a buffer check that finds no buffered range in the sink sets
\* bufferHealth to 0 and takes the rebuffering-guard path in that same
\* check: unless the engine is buffering already, the prefetch is issued
C33_EmptyRangesTriggerGuard ==
    [][ ( /\ BufferTick
          /\ sourceBuffer # 0
          /\ buffered = << >>
          /\ ~isBuffering )
        => /\ adaptiveMetrics'.bufferHealth = 0
           /\ Len(preloads') > Len(preloads) ]_vars

\* -------------------------------------------------- the order inside a tick

\* C34: the evaluation of a network tick runs on the sample refreshed in that
\* tick, throughput probe included: a tick whose probe is still in flight
\* when the tick ends has not evaluated yet, so it has not switched
C34_EvaluationAfterProbe ==
    [][ probes' > probes
        => /\ adaptiveMetrics'.qualitySwitches = adaptiveMetrics.qualitySwitches
           /\ currentQuality' = currentQuality ]_vars

\* ------------------------------------------------------ the switch counter

\* C35: qualitySwitches never decreases; a switch that completes adds
\* exactly one to it and appends exactly the id of the new level to the
\* history, and a step that completes no switch changes neither
C35_SwitchCounterExact ==
    [][ LET before == adaptiveMetrics.qualitySwitches
            after == adaptiveMetrics'.qualitySwitches
        IN  /\ after \in {before, before + 1}
            /\ after = before + 1
                  => /\ sourceBuffer' = currentQuality'
                     /\ qualityHistory' = Append(qualityHistory, currentQuality')
            /\ after = before
                  => /\ qualityHistory' = qualityHistory
                     /\ currentQuality # 0 => currentQuality' = currentQuality ]_vars

\* Two switches have completed and both are in the history
C35_Witness ==
    /\ adaptiveMetrics.qualitySwitches = MaxSwitches
    /\ Len(qualityHistory) = MaxSwitches

\* -------------------------------------------------------- a failing switch

\* A network tick whose evaluation asks for a switch, and addSourceBuffer
\* throws
EvalSwitchFails ==
    /\ networkMonitorInterval = "active"
    /\ Idle
    /\ \E bandwidth \in Bandwidths \cup {networkMetrics.bandwidth} :
          LET sampled == updateNetworkMetrics(This, bandwidth)
              newQuality ==
                  selectQualityForBitrate(TargetBitrate10(sampled.networkMetrics))
          IN  /\ currentQuality # 0
              /\ qualitySwitchCooldown = 0
              /\ newQuality # 0
              /\ newQuality # currentQuality
              /\ Becomes(adaptQuality(sampled, currentTime, FALSE))
    /\ probes' = probes + 1

\* A buffer check whose guard asks for the downgrade, and addSourceBuffer
\* throws
ForcedSwitchFails ==
    /\ bufferMonitorInterval = "active"
    /\ Idle
    /\ sourceBuffer # 0
    /\ LowBuffer(buffered, currentTime)
    /\ buffered # << >>
    /\ ~isBuffering
    /\ currentQuality > 1
    /\ Becomes(monitorBufferHealth(This, currentTime, FALSE))

\* C36: a quality switch that fails leaves the current quality, the id that
\* getMetrics() reports, qualitySwitches, the history and the cooldown as
\* they were, and the tick that asked for it goes on: the guard's prefetch
\* is still issued
C36_FailedSwitchChangesNothing ==
    [][ (EvalSwitchFails \/ ForcedSwitchFails)
        => /\ currentQuality' = currentQuality
           /\ sourceBuffer' = sourceBuffer
           /\ adaptiveMetrics'.currentQuality = adaptiveMetrics.currentQuality
           /\ adaptiveMetrics'.qualitySwitches = adaptiveMetrics.qualitySwitches
           /\ qualityHistory' = qualityHistory
           /\ qualitySwitchCooldown' = qualitySwitchCooldown
           /\ microtasks' = microtasks
           /\ ForcedSwitchFails => Len(preloads') = Len(preloads) + 1 ]_vars

\* The evaluation of the tick whose probe is in flight asked for the highest
\* level, and the engine is where it was
C36_Witness ==
    /\ probes = MaxProbes
    /\ networkMetrics.bandwidth = 100
    /\ networkMetrics.throughput = 100
    /\ currentQuality = 1
    /\ adaptiveMetrics.qualitySwitches = 0
    /\ qualitySwitchCooldown = 0
    /\ microtasks = << >>

\* ------------------------------------------------- the engines of one hook

\* The hook whose initialize() may be called again at any moment: by the
\* effect, which runs again whenever the video element or the configuration
\* changes, and by the component
NextEngines ==
    \/ HookInitialize
    \/ HookInitializeAgain
    \/ HookSourceOpen
    \/ HookTick
    \/ SampleTick
    \/ SampleSettle

SpecEngines == InitLadder /\ [][NextEngines]_vars

\* C37: one hook has at most one engine that exists or is being initialized
C37_OneEngine == engines <= 1

\* ------------------------------------------- an evaluation with no effect

\* C38: the evaluation of a network tick that selects the current level, or
\* that runs while the cooldown is above 0, leaves the current quality, the
\* source buffer, qualitySwitches, the history and the cooldown as they were
C38_EvaluationWithoutEffect ==
    [][ ( /\ probes' > probes
          /\ \/ qualitySwitchCooldown > 0
             \/ selectQualityForBitrate(TargetBitrate10(networkMetrics'))
                  = currentQuality )
        => /\ currentQuality' = currentQuality
           /\ sourceBuffer' = sourceBuffer
           /\ adaptiveMetrics' = adaptiveMetrics
           /\ qualityHistory' = qualityHistory
           /\ qualitySwitchCooldown' = qualitySwitchCooldown
           /\ microtasks' = microtasks ]_vars

\* A tick sampled 1 Mbit/s at the highest level during the cooldown of the
\* switch to it, and the level is still the highest
C38_Witness ==
    /\ qualities = ScenarioLadder
    /\ networkMetrics.bandwidth = 10
    /\ currentQuality = 3
    /\ adaptiveMetrics.qualitySwitches = 1
    /\ qualitySwitchCooldown > 0

\* ------------------------------------------------------ the segment queue

\* An engine that is handed segments, on a sink that finishes its appends
NextQueue ==
    \/ Initialize
    \/ SourceOpen
    \/ LoadSegment
    \/ LoadSegmentAgain
    \/ LoadSettle
    \/ AppendEnds
    \/ UpdateEndEvent

\* Every fetch settles, every append finishes and every updateend event is
\* delivered.
SpecQueue ==
    /\ Init
    /\ [][NextQueue]_vars
    /\ WF_vars(SourceOpen)
    /\ WF_vars(LoadSettle)
    /\ WF_vars(AppendEnds)
    /\ WF_vars(UpdateEndEvent)

\* C39: a segment that loadSegment has put in the segment queue because the
\* source buffer was busy is appended once the pending append has finished:
\* it does not stay in the queue forever
C39_QueuedSegmentsAppended == (segmentQueue # << >>) ~> (segmentQueue = << >>)


====
